---- MODULE Spec2Model ----
(***************************************************************************)
(* Anytime<T> (src/src/lib.rs): a Mutex<Option<T>> named current_best and  *)
(* an AtomicBool named value_locked, shared by any number of threads that  *)
(* call is_final, is_ready, get_result and update_result.                  *)
(*                                                                         *)
(* Every thread is a small sequential machine (pc) that steps through the  *)
(* body of the method it is executing, one shared-memory access per step.  *)
(* The mutex is std::sync::Mutex: lock() blocks while another thread holds *)
(* it, and returns Err (with the guard) once a thread has panicked while   *)
(* holding the guard.  The only code that runs under the guard and can     *)
(* panic is code of the type parameter T: T::clone (line 54) and the drop  *)
(* of the replaced value (line 65).  Both are nondeterministic here.       *)
(* value_locked has a single modification order (false, then true); a load *)
(* reads the latest value in that order.                                   *)
(***************************************************************************)
EXTENDS Naturals, FiniteSets, Sequences, TLC

\* Number of threads sharing the one holder.
NThreads == 2
\* Number of distinct values of T that callers supply.
MaxVal == 2

Threads == 1..NThreads
Values == 1..MaxVal

\* Option<T>: None is the empty sequence, Some(v) the one-element sequence.
None == << >>
Some(v) == << v >>
IsSome(o) == Len(o) = 1
OptionT == {None} \cup {Some(v) : v \in Values}

NoThread == 0

VARIABLES
    current_best,   \* the Option<T> inside the Mutex
    value_locked,   \* the AtomicBool
    lock_holder,    \* thread holding the Mutex guard, or NoThread
    poisoned,       \* the Mutex's poison flag
    pc,             \* per thread: position in the method it executes
    op,             \* per thread: the method of its current / last call
    better_result,  \* per thread: argument of its update_result call in progress
    ret_bool,       \* per thread: value returned by its last is_final / is_ready
    ret_opt,        \* per thread: value returned by its last get_result
    hist,           \* history of the holder (observations only, never read by the code)
    snap            \* per thread: what had happened when its current call was invoked

vars == << current_best, value_locked, lock_holder, poisoned, pc, op,
           better_result, ret_bool, ret_opt, hist, snap >>

shared == << current_best, value_locked, lock_holder, poisoned >>
locals == << better_result, ret_bool, ret_opt >>

\* What has happened on the holder so far.
HistInit ==
    [ results        |-> {},       \* values returned by get_result calls
      commit_invoked |-> FALSE,    \* some get_result call has been invoked
      first_commit   |-> NoThread, \* the first thread whose get_result had lock() return Ok
      first_ret      |-> {},       \* what that call returned ({} while it has not)
      update_done    |-> FALSE,    \* some update_result call has returned
      update_invoked |-> FALSE,    \* some update_result call has been invoked
      ready_true     |-> FALSE,    \* some is_ready call has returned true
      ready_first    |-> FALSE,    \* some is_ready call has returned true before any
                                   \* get_result call was invoked
      last_update    |-> None ]    \* value supplied by the last update_result that had lock()
                                   \* return Ok before first_commit had

\* What a call remembers of the history at its invocation.
SnapInit ==
    [ after_get    |-> FALSE,   \* some get_result call had returned
      after_commit |-> FALSE,   \* some get_result call that had lock() return Ok had returned
      after_update |-> FALSE,   \* some update_result call had returned
      after_ready  |-> FALSE,   \* some is_ready call had returned true
      ready_then   |-> FALSE ]  \* value_locked or a value present, at the invocation

\* Anytime::new
Init ==
    /\ current_best = None
    /\ value_locked = FALSE
    /\ lock_holder = NoThread
    /\ poisoned = FALSE
    /\ pc = [t \in Threads |-> "idle"]
    /\ op = [t \in Threads |-> "none"]
    /\ better_result = [t \in Threads |-> None]
    /\ ret_bool = [t \in Threads |-> FALSE]
    /\ ret_opt = [t \in Threads |-> None]
    /\ hist = HistInit
    /\ snap = [t \in Threads |-> SnapInit]

\* Mutant of Mutex::lock: the mutex is taken without waiting for it.
MutexLock_NoWait(t) ==
    /\ lock_holder' = t

\* Mutex::lock: blocks until the mutex is free, then takes it.
MutexLock(t) ==
    /\ lock_holder = NoThread
    /\ lock_holder' = t

\* Dropping the guard.
MutexUnlock(t) ==
    /\ lock_holder = t
    /\ lock_holder' = NoThread

\* A call is invoked: the thread enters the method at its first step.
Invoke(t, method, first, arg, s) ==
    /\ pc[t] = "idle"
    /\ pc' = [pc EXCEPT ![t] = first]
    /\ op' = [op EXCEPT ![t] = method]
    /\ better_result' = [better_result EXCEPT ![t] = arg]
    /\ ret_bool' = [ret_bool EXCEPT ![t] = FALSE]
    /\ ret_opt' = [ret_opt EXCEPT ![t] = None]
    /\ snap' = [snap EXCEPT ![t] = s]

\* ------------------------------------------------------------- is_final

is_final_Call(t) ==
    /\ Invoke(t, "is_final", "final_load", None,
              [SnapInit EXCEPT !.after_commit = hist.first_ret # {},
                               !.after_update = hist.update_done])
    /\ UNCHANGED << shared, hist >>

\* Mutant of line 41: the flag is read under the mutex.
is_final_UnderLock(t) ==
    /\ pc[t] = "final_load"
    /\ lock_holder = NoThread
    /\ ret_bool' = [ret_bool EXCEPT ![t] = value_locked]
    /\ pc' = [pc EXCEPT ![t] = "idle"]
    /\ UNCHANGED << shared, op, better_result, ret_opt, hist, snap >>

\* line 41: self.value_locked.load(Ordering::Relaxed)
is_final(t) ==
    /\ pc[t] = "final_load"
    /\ ret_bool' = [ret_bool EXCEPT ![t] = value_locked]
    /\ pc' = [pc EXCEPT ![t] = "idle"]
    /\ UNCHANGED << shared, op, better_result, ret_opt, hist, snap >>

\* ------------------------------------------------------------- is_ready

is_ready_Call(t) ==
    /\ Invoke(t, "is_ready", "ready_final", None,
              [SnapInit EXCEPT !.after_update = hist.update_done,
                               !.after_ready = hist.ready_true,
                               !.ready_then = value_locked \/ IsSome(current_best)])
    /\ UNCHANGED << shared, hist >>

\* What an is_ready call that returns b adds to the history.
ReadyReturned(b) ==
    [hist EXCEPT !.ready_true = @ \/ b,
                 !.ready_first = @ \/ (b /\ ~hist.commit_invoked)]

\* Mutant of line 46: no short-circuit on is_final(), the slot is always
\* inspected under the mutex.
is_ready_Final_NoShortCircuit(t) ==
    /\ pc[t] = "ready_final"
    /\ pc' = [pc EXCEPT ![t] = "ready_lock"]
    /\ UNCHANGED << shared, op, locals, hist, snap >>

\* Mutant of line 46: && instead of ||.
is_ready_Final_And(t) ==
    /\ pc[t] = "ready_final"
    /\ IF ~value_locked
          THEN /\ ret_bool' = [ret_bool EXCEPT ![t] = FALSE]
               /\ pc' = [pc EXCEPT ![t] = "idle"]
               /\ hist' = ReadyReturned(FALSE)
          ELSE /\ pc' = [pc EXCEPT ![t] = "ready_lock"]
               /\ UNCHANGED << ret_bool, hist >>
    /\ UNCHANGED << shared, op, better_result, ret_opt, snap >>

\* line 46, left operand: self.is_final() || ...
is_ready_Final(t) ==
    /\ pc[t] = "ready_final"
    /\ IF value_locked
          THEN /\ ret_bool' = [ret_bool EXCEPT ![t] = TRUE]
               /\ pc' = [pc EXCEPT ![t] = "idle"]
               /\ hist' = ReadyReturned(TRUE)
          ELSE /\ pc' = [pc EXCEPT ![t] = "ready_lock"]
               /\ UNCHANGED << ret_bool, hist >>
    /\ UNCHANGED << shared, op, better_result, ret_opt, snap >>

\* line 46: self.current_best.lock(), Ok unless the mutex is poisoned
is_ready_Lock(t) ==
    /\ pc[t] = "ready_lock"
    /\ MutexLock(t)
    /\ pc' = [pc EXCEPT ![t] = IF poisoned THEN "ready_err" ELSE "ready_ok"]
    /\ UNCHANGED << current_best, value_locked, poisoned, op, locals, hist, snap >>

\* line 46: .unwrap().is_some() of Ok, then the temporary guard is dropped.
is_ready_IsSome(t) ==
    /\ pc[t] = "ready_ok"
    /\ MutexUnlock(t)
    /\ ret_bool' = [ret_bool EXCEPT ![t] = IsSome(current_best)]
    /\ pc' = [pc EXCEPT ![t] = "idle"]
    /\ hist' = ReadyReturned(IsSome(current_best))
    /\ UNCHANGED << current_best, value_locked, poisoned, op, better_result,
                    ret_opt, snap >>

\* line 46: .unwrap() of Err panics; the call does not return.
is_ready_UnwrapPanic(t) ==
    /\ pc[t] = "ready_err"
    /\ MutexUnlock(t)
    /\ pc' = [pc EXCEPT ![t] = "panicked_unwrap"]
    /\ UNCHANGED << current_best, value_locked, poisoned, op, locals, hist, snap >>

\* ----------------------------------------------------------- get_result

\* Mutant of lines 52-53: the flag is stored before the mutex is taken.
get_result_Call_StoreFirst(t) ==
    /\ Invoke(t, "get_result", "get_lock", None,
              [SnapInit EXCEPT !.after_get = hist.results # {}])
    /\ hist' = [hist EXCEPT !.commit_invoked = TRUE]
    /\ value_locked' = TRUE
    /\ UNCHANGED << current_best, lock_holder, poisoned >>

get_result_Call(t) ==
    /\ Invoke(t, "get_result", "get_lock", None,
              [SnapInit EXCEPT !.after_get = hist.results # {}])
    /\ hist' = [hist EXCEPT !.commit_invoked = TRUE]
    /\ UNCHANGED shared

\* Mutant of line 52: a poisoned mutex is treated like a healthy one.
get_result_Lock_IgnorePoison(t) ==
    /\ pc[t] = "get_lock"
    /\ MutexLock(t)
    /\ pc' = [pc EXCEPT ![t] = "get_store"]
    /\ hist' = IF hist.first_commit # NoThread THEN hist
               ELSE [hist EXCEPT !.first_commit = t]
    /\ UNCHANGED << current_best, value_locked, poisoned, op, locals, snap >>

\* line 52: if let Ok(guard) = self.current_best.lock()
get_result_Lock(t) ==
    /\ pc[t] = "get_lock"
    /\ MutexLock(t)
    /\ pc' = [pc EXCEPT ![t] = IF poisoned THEN "get_err" ELSE "get_store"]
    /\ hist' = IF poisoned \/ hist.first_commit # NoThread THEN hist
               ELSE [hist EXCEPT !.first_commit = t]
    /\ UNCHANGED << current_best, value_locked, poisoned, op, locals, snap >>

\* Mutant of line 53: the flag is set only when there is a value to return.
get_result_Store_IfSome(t) ==
    /\ pc[t] = "get_store"
    /\ value_locked' = IsSome(current_best)
    /\ pc' = [pc EXCEPT ![t] = "get_clone"]
    /\ UNCHANGED << current_best, lock_holder, poisoned, op, locals, hist, snap >>

\* Mutant of line 53: the flag is flipped instead of set.
get_result_Store_Toggle(t) ==
    /\ pc[t] = "get_store"
    /\ value_locked' = ~value_locked
    /\ pc' = [pc EXCEPT ![t] = "get_clone"]
    /\ UNCHANGED << current_best, lock_holder, poisoned, op, locals, hist, snap >>

\* line 53: self.value_locked.store(true, Ordering::Relaxed)
get_result_Store(t) ==
    /\ pc[t] = "get_store"
    /\ value_locked' = TRUE
    /\ pc' = [pc EXCEPT ![t] = "get_clone"]
    /\ UNCHANGED << current_best, lock_holder, poisoned, op, locals, hist, snap >>

\* What a returning get_result call adds to the history.
Returned(t, v, ok) ==
    [hist EXCEPT
       !.results = @ \cup {v},
       !.first_ret = IF ok /\ hist.first_commit = t /\ @ = {} THEN {v} ELSE @]

\* Mutant of line 54: guard.take() instead of guard.clone().
get_result_Clone_Take(t) ==
    /\ pc[t] = "get_clone"
    /\ MutexUnlock(t)
    /\ ret_opt' = [ret_opt EXCEPT ![t] = current_best]
    /\ current_best' = None
    /\ pc' = [pc EXCEPT ![t] = "idle"]
    /\ hist' = Returned(t, current_best, TRUE)
    /\ UNCHANGED << value_locked, poisoned, op, better_result, ret_bool, snap >>

\* line 54: guard.clone(); the guard is dropped and the clone returned.
get_result_Clone(t) ==
    /\ pc[t] = "get_clone"
    /\ MutexUnlock(t)
    /\ ret_opt' = [ret_opt EXCEPT ![t] = current_best]
    /\ pc' = [pc EXCEPT ![t] = "idle"]
    /\ hist' = Returned(t, current_best, TRUE)
    /\ UNCHANGED << current_best, value_locked, poisoned, op, better_result,
                    ret_bool, snap >>

\* line 54: T::clone panics. The guard is dropped while the thread unwinds,
\* which poisons the mutex. Option::clone calls T::clone only for Some.
get_result_ClonePanic(t) ==
    /\ pc[t] = "get_clone"
    /\ IsSome(current_best)
    /\ MutexUnlock(t)
    /\ poisoned' = TRUE
    /\ pc' = [pc EXCEPT ![t] = "panicked_clone"]
    /\ UNCHANGED << current_best, value_locked, op, locals, hist, snap >>

\* Mutant of lines 55-58: the failure path freezes the holder too.
get_result_Err_Freeze(t) ==
    /\ pc[t] = "get_err"
    /\ MutexUnlock(t)
    /\ value_locked' = TRUE
    /\ ret_opt' = [ret_opt EXCEPT ![t] = None]
    /\ pc' = [pc EXCEPT ![t] = "idle"]
    /\ hist' = Returned(t, None, FALSE)
    /\ UNCHANGED << current_best, poisoned, op, better_result, ret_bool, snap >>

\* lines 55-58: the lock is poisoned; log, return None.
get_result_Err(t) ==
    /\ pc[t] = "get_err"
    /\ MutexUnlock(t)
    /\ ret_opt' = [ret_opt EXCEPT ![t] = None]
    /\ pc' = [pc EXCEPT ![t] = "idle"]
    /\ hist' = Returned(t, None, FALSE)
    /\ UNCHANGED << current_best, value_locked, poisoned, op, better_result,
                    ret_bool, snap >>

\* -------------------------------------------------------- update_result

update_result_Call(t, v) ==
    /\ Invoke(t, "update_result", "upd_lock", Some(v),
              [SnapInit EXCEPT !.after_get = hist.results # {}])
    /\ hist' = [hist EXCEPT !.update_invoked = TRUE]
    /\ UNCHANGED shared

\* line 63: if let Ok(mut guard) = self.current_best.lock()
update_result_Lock(t) ==
    /\ pc[t] = "upd_lock"
    /\ MutexLock(t)
    /\ pc' = [pc EXCEPT ![t] = IF poisoned THEN "upd_err" ELSE "upd_load"]
    /\ hist' = IF poisoned \/ hist.first_commit # NoThread THEN hist
               ELSE [hist EXCEPT !.last_update = better_result[t]]
    /\ UNCHANGED << current_best, value_locked, poisoned, op, locals, snap >>

\* Mutant of line 64: the flag is not consulted.
update_result_Load_NoCheck(t) ==
    /\ pc[t] = "upd_load"
    /\ pc' = [pc EXCEPT ![t] = "upd_replace"]
    /\ UNCHANGED << shared, op, locals, hist, snap >>

\* line 64: if !self.value_locked.load(Ordering::Relaxed)
update_result_Load(t) ==
    /\ pc[t] = "upd_load"
    /\ pc' = [pc EXCEPT ![t] = IF value_locked THEN "upd_noop" ELSE "upd_replace"]
    /\ UNCHANGED << shared, op, locals, hist, snap >>

\* The call returns: its argument is gone (moved into the slot or dropped).
UpdateReturns(t) ==
    /\ MutexUnlock(t)
    /\ pc' = [pc EXCEPT ![t] = "idle"]
    /\ better_result' = [better_result EXCEPT ![t] = None]
    /\ hist' = [hist EXCEPT !.update_done = TRUE]
    /\ UNCHANGED << value_locked, poisoned, op, ret_bool, ret_opt, snap >>

\* Mutant of line 65: the holder keeps the greater of the old and new value.
update_result_Replace_KeepBest(t) ==
    /\ pc[t] = "upd_replace"
    /\ current_best' = IF IsSome(current_best) /\ current_best[1] > better_result[t][1]
                          THEN current_best ELSE better_result[t]
    /\ UpdateReturns(t)

\* line 65: guard.replace(better_result); the old value is dropped, then
\* the guard.
update_result_Replace(t) ==
    /\ pc[t] = "upd_replace"
    /\ current_best' = better_result[t]
    /\ UpdateReturns(t)

\* line 65: the new value is in place and T::drop of the old value panics.
\* The guard is dropped while the thread unwinds, which poisons the mutex.
update_result_DropPanic(t) ==
    /\ pc[t] = "upd_replace"
    /\ IsSome(current_best)
    /\ MutexUnlock(t)
    /\ current_best' = better_result[t]
    /\ poisoned' = TRUE
    /\ pc' = [pc EXCEPT ![t] = "panicked_drop"]
    /\ better_result' = [better_result EXCEPT ![t] = None]
    /\ UNCHANGED << value_locked, op, ret_bool, ret_opt, hist, snap >>

\* Mutant of lines 66-68: the guard is leaked (mem::forget) on the no-op path.
update_result_Noop_KeepLock(t) ==
    /\ pc[t] = "upd_noop"
    /\ pc' = [pc EXCEPT ![t] = "idle"]
    /\ better_result' = [better_result EXCEPT ![t] = None]
    /\ hist' = [hist EXCEPT !.update_done = TRUE]
    /\ UNCHANGED << shared, op, ret_bool, ret_opt, snap >>

\* lines 66-68: the value is locked; log, drop the guard, return.
update_result_Noop(t) ==
    /\ pc[t] = "upd_noop"
    /\ UNCHANGED current_best
    /\ UpdateReturns(t)

\* lines 69-71: the lock is poisoned; log, return.
update_result_Err(t) ==
    /\ pc[t] = "upd_err"
    /\ UNCHANGED current_best
    /\ UpdateReturns(t)

\* ------------------------------------------------------------ the system

Next ==
    \E t \in Threads :
        \/ is_final_Call(t)
        \/ is_final(t)
        \/ is_ready_Call(t)
        \/ is_ready_Final(t)
        \/ is_ready_Lock(t)
        \/ is_ready_IsSome(t)
        \/ is_ready_UnwrapPanic(t)
        \/ get_result_Call(t)
        \/ get_result_Lock(t)
        \/ get_result_Store(t)
        \/ get_result_Clone(t)
        \/ get_result_ClonePanic(t)
        \/ get_result_Err(t)
        \/ \E v \in Values : update_result_Call(t, v)
        \/ update_result_Lock(t)
        \/ update_result_Load(t)
        \/ update_result_Replace(t)
        \/ update_result_DropPanic(t)
        \/ update_result_Noop(t)
        \/ update_result_Err(t)

Spec == Init /\ [][Next]_vars

\* The holder when no code of T panics, so that the mutex is never poisoned.
NoPanicNext ==
    \E t \in Threads :
        \/ is_final_Call(t)
        \/ is_final(t)
        \/ is_ready_Call(t)
        \/ is_ready_Final(t)
        \/ is_ready_Lock(t)
        \/ is_ready_IsSome(t)
        \/ get_result_Call(t)
        \/ get_result_Lock(t)
        \/ get_result_Store(t)
        \/ get_result_Clone(t)
        \/ \E v \in Values : update_result_Call(t, v)
        \/ update_result_Lock(t)
        \/ update_result_Load(t)
        \/ update_result_Replace(t)
        \/ update_result_Noop(t)

\* The steps of a call that do not wait for anything.
Internal(t) ==
    \/ is_final(t)
    \/ is_ready_Final(t)
    \/ is_ready_IsSome(t)
    \/ get_result_Store(t)
    \/ get_result_Clone(t)
    \/ update_result_Load(t)
    \/ update_result_Replace(t)
    \/ update_result_Noop(t)

\* The steps of a call that wait for the mutex.
Acquire(t) ==
    \/ is_ready_Lock(t)
    \/ get_result_Lock(t)
    \/ update_result_Lock(t)

\* A fair scheduler: a thread inside a call keeps running (weak fairness),
\* and a thread that waits in lock() gets the mutex if the mutex is free again
\* and again (strong fairness). Weak fairness alone lets other threads overtake
\* a waiting thread for ever: std::sync::Mutex itself promises no order among
\* waiters, the fairness is the scheduler's. Callers are free to stop calling.
LiveSpec ==
    /\ Init
    /\ [][NoPanicNext]_vars
    /\ \A t \in Threads : WF_vars(Internal(t)) /\ SF_vars(Acquire(t))

TypeOK ==
    /\ current_best \in OptionT
    /\ value_locked \in BOOLEAN
    /\ lock_holder \in Threads \cup {NoThread}
    /\ poisoned \in BOOLEAN
    /\ better_result \in [Threads -> OptionT]
    /\ ret_opt \in [Threads -> OptionT]
    /\ ret_bool \in [Threads -> BOOLEAN]

\* ------------------------------------------------------------ properties

\* thread t has returned from a call of method m (and has not called again)
ReturnedFrom(t, m) == pc[t] = "idle" /\ op[t] = m

\* thread t takes a step
Steps(t) == pc'[t] # pc[t]

\* C1: every get_result call on the holder returns the same value as every
\* other get_result call: at most one value is ever returned.
C1_Agreement == Cardinality(hist.results) <= 1

\* C2: once a get_result call has returned v, every update_result call
\* invoked afterwards leaves current_best alone (it never reaches the
\* replace of line 65), and every get_result call invoked afterwards
\* returns v again.
C2_StableAfterCommit ==
    \A t \in Threads :
        /\ (pc[t] = "upd_replace" => ~snap[t].after_get)
        /\ (ReturnedFrom(t, "get_result") /\ snap[t].after_get
               => hist.results = {ret_opt[t]})

\* C3 as claimed: from the moment any get_result call has been invoked, no
\* step changes current_best.
C3_NoUpdateAfterCommitInvoked ==
    [][hist.commit_invoked => current_best' = current_best]_vars

\* C3 as amended: from the moment any get_result call has acquired the lock
\* (its lock() returned Ok), no step changes current_best.
C3_NoUpdateAfterCommitLocked ==
    [][hist.first_commit # NoThread => current_best' = current_best]_vars

\* C3 witness: an update_result that was invoked before any get_result had
\* returned finds the holder locked and discards a value that differs from
\* the stored one.
C3_Witness ==
    \E t \in Threads :
        /\ pc[t] = "upd_noop"
        /\ hist.first_commit # NoThread
        /\ ~snap[t].after_get
        /\ better_result[t] # current_best

\* C4: the first get_result call to acquire the lock returns, if T::clone
\* lets it return, exactly the value supplied by the last update_result call
\* that acquired the lock before it (None if there was none), whatever the
\* order of the values; from that acquisition on, the slot holds exactly that
\* value: a racing update is stored whole or not at all.
C4_FirstCommitReturnsLastUpdate ==
    /\ current_best \in OptionT
    /\ hist.first_commit # NoThread => current_best = hist.last_update
    /\ hist.first_ret # {} => hist.first_ret = {hist.last_update}

\* C4 witness: the first commit returned Some(1) although a greater value
\* is discarded by a racing update_result.
C4_Witness ==
    \E t \in Threads :
        /\ hist.first_ret = {Some(1)}
        /\ pc[t] = "upd_noop"
        /\ ~snap[t].after_get
        /\ better_result[t] = Some(2)

\* C5: after a get_result call that acquired the lock has returned,
\* value_locked is true and every is_final call invoked afterwards returns
\* true; a commit on a holder that no update_result had reached returns None
\* and leaves the holder locked and empty.
C5_CommitFreezes ==
    /\ hist.first_ret # {} => value_locked
    /\ \A t \in Threads :
          ReturnedFrom(t, "is_final") /\ snap[t].after_commit => ret_bool[t]
    /\ hist.first_ret # {} /\ hist.last_update = None
          => hist.first_ret = {None} /\ current_best = None

\* C5 witness: is_final, invoked after a commit of the empty holder
\* returned None, has returned.
C5_Witness ==
    \E t \in Threads :
        /\ ReturnedFrom(t, "is_final")
        /\ snap[t].after_commit
        /\ hist.first_ret = {None}
        /\ hist.update_invoked

\* C6: value_locked starts false and no step changes it from true to false.
C6_FrozenMonotone ==
    /\ ~value_locked
    /\ [][value_locked => value_locked']_vars

\* C6 witness: a second get_result call has stored the flag again.
C6_Witness ==
    \E t \in Threads :
        /\ pc[t] = "get_clone"
        /\ hist.first_ret # {}
        /\ value_locked

\* C7: current_best changes only in a step of a thread that executes
\* update_result, holds the lock and finds value_locked false, and the new
\* content is exactly the value that caller supplied.
C7_OnlyUpdateWrites ==
    [][current_best' # current_best =>
          \E t \in Threads :
              /\ Steps(t)
              /\ op[t] = "update_result"
              /\ lock_holder = t
              /\ ~value_locked
              /\ current_best' = better_result[t]]_vars

\* C7 witness: an update_result call has replaced an earlier value by its
\* own, smaller one.
C7_Witness ==
    \E t \in Threads :
        /\ ReturnedFrom(t, "update_result")
        /\ ~value_locked
        /\ current_best = Some(1)
        /\ hist.last_update = Some(1)
        /\ \E u \in Threads \ {t} : ReturnedFrom(u, "update_result")

\* C8: on a holder on which no get_result has been invoked, is_final and
\* is_ready return false while no update_result has been invoked, and once
\* an update_result call has returned, every is_ready call invoked afterwards
\* returns true and every is_final call still returns false.
C8_BeforeCommit ==
    \A t \in Threads :
        ~hist.commit_invoked =>
            /\ (ReturnedFrom(t, "is_final") => ~ret_bool[t])
            /\ (ReturnedFrom(t, "is_ready") /\ ~hist.update_invoked => ~ret_bool[t])
            /\ (op[t] = "is_ready" /\ snap[t].after_update
                   => pc[t] # "panicked_unwrap" /\ (pc[t] = "idle" => ret_bool[t]))

\* C9: no call panics in the holder's own code, also when the lock is
\* poisoned (panics of T::clone and T::drop are raised by the caller's type).
C9_NoOperationPanics ==
    \A t \in Threads : pc[t] # "panicked_unwrap"

\* C10: while the lock is poisoned, no step of a get_result or update_result
\* call changes value_locked or current_best, the call returns, and
\* get_result returns None.
C10_LockFailureLeavesState ==
    [][\A t \in Threads :
          poisoned /\ Steps(t) /\ op[t] \in {"get_result", "update_result"}
                   /\ pc[t] # "idle"
             => /\ value_locked' = value_locked
                /\ current_best' = current_best
                /\ pc'[t] \in {"get_err", "upd_err", "idle"}
                /\ (pc'[t] = "idle" /\ op[t] = "get_result" => ret_opt'[t] = None)]_vars

\* C10 witness: get_result has returned None from a poisoned holder that is
\* not locked and holds a value.
C10_Witness ==
    \E t \in Threads :
        /\ ReturnedFrom(t, "get_result")
        /\ ret_opt[t] = None
        /\ poisoned
        /\ ~value_locked
        /\ IsSome(current_best)

\* thread t is inside a section that the mutex protects
InLock(t) ==
    pc[t] \in {"ready_ok", "ready_err", "get_store", "get_clone", "get_err",
               "upd_load", "upd_replace", "upd_noop", "upd_err"}

\* C11: once the lock is poisoned while value_locked is false, both stay so
\* for ever, no step changes current_best, every get_result call that
\* returns returns None and every is_final call that returns returns false.
C11_PoisonedStaysUnfrozen ==
    [][poisoned /\ ~value_locked =>
          /\ poisoned' /\ ~value_locked'
          /\ current_best' = current_best
          /\ \A t \in Threads :
                Steps(t) /\ pc'[t] = "idle" =>
                    /\ (op[t] = "get_result" => ret_opt'[t] = None)
                    /\ (op[t] = "is_final" => ~ret_bool'[t])]_vars

\* C11 witness: on a poisoned, unlocked holder that holds a value,
\* get_result has returned None and is_final then returned false.
C11_Witness ==
    \E t \in Threads :
        /\ ReturnedFrom(t, "is_final")
        /\ ~ret_bool[t]
        /\ poisoned
        /\ ~value_locked
        /\ IsSome(current_best)
        /\ hist.results = {None}

\* C12: is_final never waits (its one step can be taken in every state,
\* whoever holds the lock), never takes the lock, and its step changes
\* neither current_best nor value_locked.
C12_IsFinalNonBlocking ==
    /\ [](\A t \in Threads :
            op[t] = "is_final" /\ pc[t] # "idle" =>
                /\ ENABLED is_final(t)
                /\ lock_holder # t)
    /\ [][\A t \in Threads :
            op[t] = "is_final" /\ Steps(t) /\ pc[t] # "idle" =>
                /\ pc'[t] = "idle"
                /\ current_best' = current_best
                /\ value_locked' = value_locked
                /\ lock_holder' = lock_holder]_vars

\* C12 witness: an is_final call is in progress while another thread holds
\* the lock.
C12_Witness ==
    \E t \in Threads :
        /\ op[t] = "is_final"
        /\ pc[t] # "idle"
        /\ lock_holder \notin {NoThread, t}

\* C13 as claimed: an is_ready call in progress can always take its next
\* step, whoever holds the lock.
C13_IsReadyNonBlocking ==
    \A t \in Threads :
        /\ pc[t] = "ready_final" => ENABLED is_ready_Final(t)
        /\ pc[t] = "ready_lock" => ENABLED is_ready_Lock(t)

\* C13 as amended: is_ready does not wait when it finds value_locked true
\* (it returns true at once, without the lock, whoever holds it); when it
\* finds value_locked false it must take the lock, and waits exactly while
\* another thread holds it.
C13_IsReadyBlocksOnlyUnfrozen ==
    /\ [](\A t \in Threads :
            /\ pc[t] = "ready_final" => ENABLED is_ready_Final(t)
            /\ pc[t] = "ready_lock" =>
                  (ENABLED is_ready_Lock(t) <=> lock_holder = NoThread))
    /\ [][\A t \in Threads :
            pc[t] = "ready_final" /\ Steps(t) /\ value_locked =>
                /\ pc'[t] = "idle"
                /\ ret_bool'[t]
                /\ lock_holder' = lock_holder]_vars

\* C13 witness: is_ready is about to read value_locked, which is true,
\* while another thread holds the lock.
C13_Witness ==
    \E t \in Threads :
        /\ pc[t] = "ready_final"
        /\ value_locked
        /\ lock_holder \notin {NoThread, t}

\* C15: at most one thread is inside a section the mutex protects, and it
\* is the thread that holds the mutex.
C15_MutualExclusion ==
    /\ Cardinality({t \in Threads : InLock(t)}) <= 1
    /\ \A t \in Threads : InLock(t) <=> lock_holder = t

\* C15 witness: one thread is about to replace the value while another
\* waits for the lock in get_result.
C15_Witness ==
    \E t, u \in Threads :
        /\ pc[t] = "upd_replace"
        /\ pc[u] = "get_lock"

\* C16: value_locked is changed only by a step of a thread that executes
\* get_result and holds the lock, and is_final returns true only after some
\* get_result call has acquired the lock.
C16_OnlyCommitWritesFlag ==
    /\ [][value_locked' # value_locked =>
            \E t \in Threads :
                /\ Steps(t)
                /\ op[t] = "get_result"
                /\ lock_holder = t
                /\ hist.first_commit # NoThread]_vars
    /\ [](\A t \in Threads :
            ReturnedFrom(t, "is_final") /\ ret_bool[t] => hist.first_commit # NoThread)

\* C16 witness: is_final has returned true while the first commit has not
\* returned yet.
C16_Witness ==
    \E t \in Threads :
        /\ ReturnedFrom(t, "is_final")
        /\ ret_bool[t]
        /\ hist.first_ret = {}

\* what is_ready is specified to report: value_locked or a value present
Ready == value_locked \/ IsSome(current_best)

\* C14: every is_ready call that returns, returns the value that
\* (value_locked or a value present) has at an instant between its
\* invocation and its return: at the invocation or at the return.
C14_IsReadyLinearizable ==
    [][\A t \in Threads :
          op[t] = "is_ready" /\ pc[t] # "idle" /\ pc'[t] = "idle" =>
              ret_bool'[t] \in {snap[t].ready_then, Ready'}]_vars

\* C14 witness: is_ready read value_locked false, a commit of the empty
\* holder slipped in before it took the lock, and it is about to return
\* false from a holder that is locked by now.
C14_Witness ==
    \E t \in Threads :
        /\ pc[t] = "ready_ok"
        /\ ~snap[t].ready_then
        /\ value_locked
        /\ current_best = None

\* C18: a value once present stays present, value_locked once true stays
\* true, and every is_ready call that was invoked after an is_ready call
\* returned true and that returns, returns true.
C18_IsReadyMonotone ==
    /\ [][/\ IsSome(current_best) => IsSome(current_best')
          /\ value_locked => value_locked']_vars
    /\ [](\A t \in Threads :
            ReturnedFrom(t, "is_ready") /\ snap[t].after_ready => ret_bool[t])

\* C18 witness: an is_ready call invoked after another one returned true
\* has returned true from a holder that is not locked.
C18_Witness ==
    \E t \in Threads :
        /\ ReturnedFrom(t, "is_ready")
        /\ snap[t].after_ready
        /\ ret_bool[t]
        /\ ~value_locked

\* C19: once an is_ready call has returned true before any get_result call
\* was invoked, every get_result call that acquired the lock and returns,
\* returns a present value.
C19_PollThenCommit ==
    [][\A t \in Threads :
          /\ hist.ready_first
          /\ op[t] = "get_result"
          /\ lock_holder = t
          /\ ~poisoned
          /\ pc'[t] = "idle"
          => IsSome(ret_opt'[t])]_vars

\* C19 witness: after such an is_ready call, a get_result call that was
\* not the first to commit has returned a value.
C19_Witness ==
    \E t \in Threads :
        /\ hist.ready_first
        /\ ReturnedFrom(t, "get_result")
        /\ IsSome(ret_opt[t])
        /\ snap[t].after_get

====
